---- MODULE Spec2Model ----
(***************************************************************************)
(* The macro impl_twice! of src/lib.rs as a token rewriter.                *)
(*                                                                         *)
(* An invocation holds a sequence of token trees.  The four rules of the   *)
(* macro are matched in their textual order against that sequence; the     *)
(* rule that matches is transcribed into impl blocks and further           *)
(* invocations, which replace the invocation in place.  The expansion of a *)
(* program is the state machine that keeps expanding the leftmost pending  *)
(* invocation until none is left or one matches no rule.                   *)
(***************************************************************************)
EXTENDS Integers, Sequences, FiniteSets, TLC

VARIABLES prog, out, status

vars == <<prog, out, status>>

(***************************************************************************)
(* Bounds of the checked inputs.                                           *)
(***************************************************************************)
\* the largest program: its targets and its groups without a target together
MaxSize == 4

(***************************************************************************)
(* Token trees.  A leaf has a kind k and a text v; a delimited group       *)
(* ( ... ) or { ... } and an already parsed `item` fragment hold their     *)
(* token trees in ts.                                                      *)
(***************************************************************************)
Tok(kind, text) == [k |-> kind, v |-> text, ts |-> <<>>]

Kw(s) == Tok("kw", s)

Id(s) == Tok("id", s)

Pu(s) == Tok("punct", s)

Lt(s) == Tok("lifetime", s)

Grp(kind, toks) == [k |-> kind, v |-> "", ts |-> toks]

Paren(toks) == Grp("paren", toks)

Brace(toks) == Grp("brace", toks)

ItemNt(toks) == Grp("item", toks)

Block(toks) == Grp("block", toks)

Inv(toks) == Grp("inv", toks)

IsTok(t, kind, text) == t.k = kind /\ t.v = text

\* what the fragment specifier :ident accepts: any identifier, keywords included
IsIdent(t) == t.k \in {"id", "kw"}

\* what the fragment specifier :tt accepts: one token tree (a closing delimiter
\* never appears as a token tree of its own)
IsTt(t) == t.k \in {"id", "kw", "punct", "lifetime", "paren", "brace", "item"}

RECURSIVE Concat(_)
Concat(ss) == IF ss = <<>> THEN <<>> ELSE Head(ss) \o Concat(Tail(ss))

\* the elements of ss with sep between consecutive ones
RECURSIVE Join(_, _)
Join(ss, sep) ==
  IF ss = <<>> THEN <<>>
  ELSE IF Len(ss) = 1 THEN Head(ss)
  ELSE Head(ss) \o sep \o Join(Tail(ss), sep)

RECURSIVE SumSeq(_)
SumSeq(s) == IF s = <<>> THEN 0 ELSE Head(s) + SumSeq(Tail(s))

\* the number of leaf tokens and delimiters of a sequence of token trees
RECURSIVE Size(_)
Size(toks) ==
  IF toks = <<>> THEN 0
  ELSE LET t == Head(toks)
       IN (IF t.k \in {"paren", "brace"} THEN 2 + Size(t.ts)
           ELSE IF t.k = "item" THEN Size(t.ts)
           ELSE 1) + Size(Tail(toks))

(***************************************************************************)
(* The matchers, written as the macro-by-example matcher reads a pattern:  *)
(* left to right, one token of lookahead.  A result has st = "ok", "fail"  *)
(* (this rule does not match, the next rule is tried) or "error" (a local  *)
(* ambiguity or a fragment that does not parse: the invocation is in       *)
(* error and no further rule is tried).                                    *)
(***************************************************************************)
Fail == [st |-> "fail"]

HardError == [st |-> "error"]

NoAngle(i) == [st |-> "ok", present |-> FALSE, args |-> <<>>, next |-> i]

\* AngleRest with a parameter of any number of tokens, of which the first counts
RECURSIVE AngleRestOpaque(_, _, _)
AngleRestOpaque(toks, j, acc) ==
  IF j > Len(toks) THEN Fail
  ELSE IF IsTok(toks[j], "punct", ">")
  THEN [st |-> "ok", present |-> TRUE, args |-> acc, next |-> j + 1]
  ELSE IF IsTok(toks[j], "punct", ",") /\ j + 1 <= Len(toks)
  THEN AngleRestOpaque(toks, j + 2, Append(acc, toks[j + 1]))
  ELSE AngleRestOpaque(toks, j + 1, acc)

\* $( , $x:tt )* > with one $x already in acc; j is the position after it
RECURSIVE AngleRest(_, _, _)
AngleRest(toks, j, acc) ==
  IF j > Len(toks) THEN Fail
  ELSE IF IsTok(toks[j], "punct", ",")
  THEN IF j + 1 <= Len(toks) /\ IsTt(toks[j + 1])
       THEN AngleRest(toks, j + 2, Append(acc, toks[j + 1]))
       ELSE Fail
  ELSE IF IsTok(toks[j], "punct", ">")
  THEN [st |-> "ok", present |-> TRUE, args |-> acc, next |-> j + 1]
  ELSE Fail

\* $(<$($x:tt),*>)? at position i.  After `<` a `>` is both the literal of
\* the pattern and a token tree for $x: a local ambiguity.
ParseAngle(toks, i) ==
  IF i > Len(toks) \/ ~IsTok(toks[i], "punct", "<") THEN NoAngle(i)
  ELSE IF i + 1 > Len(toks) THEN Fail
  ELSE IF IsTok(toks[i + 1], "punct", ">") THEN HardError
  ELSE AngleRest(toks, i + 2, <<toks[i + 1]>>)

\* $(<...>)? after $ename: e is its result, a that of the list after $name
TargetWithFor(toks, i, a, e) ==
  IF e.st # "ok" THEN e
  ELSE [st |-> "ok",
        t |-> [name |-> toks[i], params |-> a, hasFor |-> TRUE,
               ename |-> toks[a.next + 1], eparams |-> e],
        next |-> e.next]

\* $(for $ename:ident $(<...>)?)? after $name and its list a
TargetFor(toks, i, a) ==
  IF a.st # "ok" THEN a
  ELSE IF a.next <= Len(toks) /\ IsTok(toks[a.next], "kw", "for")
  THEN IF a.next + 1 > Len(toks) \/ ~IsIdent(toks[a.next + 1]) THEN Fail
       ELSE TargetWithFor(toks, i, a, ParseAngle(toks, a.next + 2))
  ELSE [st |-> "ok",
        t |-> [name |-> toks[i], params |-> a, hasFor |-> FALSE,
               ename |-> toks[i], eparams |-> NoAngle(0)],
        next |-> a.next]

\* ParseTarget with a name that may be a path, of which the last segment counts
ParseTargetLastSegment(toks, i) ==
  IF i > Len(toks) \/ ~IsIdent(toks[i]) THEN Fail
  ELSE IF /\ i + 2 <= Len(toks)
          /\ IsTok(toks[i + 1], "punct", "::")
          /\ IsIdent(toks[i + 2])
  THEN TargetFor(toks, i + 2, ParseAngle(toks, i + 3))
  ELSE TargetFor(toks, i, ParseAngle(toks, i + 1))

\* $name:ident $(<...>)? $(for $ename:ident $(<...>)?)? at position i
ParseTarget(toks, i) ==
  IF i > Len(toks) \/ ~IsIdent(toks[i]) THEN Fail
  ELSE TargetFor(toks, i, ParseAngle(toks, i + 1))

RECURSIVE ParseMore(_, _, _)
\* one more target r of $( , $more_name ... )*, after those in acc
MoreStep(toks, acc, r) ==
  IF r.st # "ok" THEN r ELSE ParseMore(toks, r.next, Append(acc, r.t))

\* $( , $more_name ... )* at position i
ParseMore(toks, i, acc) ==
  IF i <= Len(toks) /\ IsTok(toks[i], "punct", ",")
  THEN MoreStep(toks, acc, ParseTarget(toks, i + 1))
  ELSE [st |-> "ok", targets |-> acc, next |-> i]

\* the end of a where-clause without parentheses: the next `impl` or body
RECURSIVE BareWhereEnd(_, _)
BareWhereEnd(toks, j) ==
  IF j > Len(toks) \/ toks[j].k = "brace" \/ IsTok(toks[j], "kw", "impl") THEN j
  ELSE BareWhereEnd(toks, j + 1)

\* ParseWhere that takes a where-clause without parentheses as well
ParseWhereBare(toks, i) ==
  IF i <= Len(toks) /\ IsTok(toks[i], "kw", "where")
  THEN IF i + 1 <= Len(toks) /\ toks[i + 1].k = "paren"
       THEN [st |-> "ok", present |-> TRUE, args |-> toks[i + 1].ts, next |-> i + 2]
       ELSE [st |-> "ok", present |-> TRUE,
             args |-> SubSeq(toks, i + 1, BareWhereEnd(toks, i + 1) - 1),
             next |-> BareWhereEnd(toks, i + 1)]
  ELSE [st |-> "ok", present |-> FALSE, args |-> <<>>, next |-> i]

\* $(where ($($where_args:tt)*))? at position i
ParseWhere(toks, i) ==
  IF i <= Len(toks) /\ IsTok(toks[i], "kw", "where")
  THEN IF i + 1 <= Len(toks) /\ toks[i + 1].k = "paren"
       THEN [st |-> "ok", present |-> TRUE, args |-> toks[i + 1].ts, next |-> i + 2]
       ELSE Fail
  ELSE [st |-> "ok", present |-> FALSE, args |-> <<>>, next |-> i]

\* a header whose generics g, targets m and where-clause w are read
HeaderEnd(g, m, w) ==
  IF w.st # "ok" THEN w
  ELSE [st |-> "ok", h |-> [gen |-> g, targets |-> m.targets, wh |-> w], next |-> w.next]

HeaderTargets(toks, g, m) ==
  IF m.st # "ok" THEN m ELSE HeaderEnd(g, m, ParseWhere(toks, m.next))

HeaderFirst(toks, g, f) ==
  IF f.st # "ok" THEN f ELSE HeaderTargets(toks, g, ParseMore(toks, f.next, <<f.t>>))

HeaderGen(toks, g) ==
  IF g.st # "ok" THEN g ELSE HeaderFirst(toks, g, ParseTarget(toks, g.next))

\* impl $(<...>)? target $(, target)* $(where (...))? at position i
ParseHeader(toks, i) ==
  IF i > Len(toks) \/ ~IsTok(toks[i], "kw", "impl") THEN Fail
  ELSE HeaderGen(toks, ParseAngle(toks, i + 1))

RECURSIVE ParseHeaders2(_, _, _)
\* one more header r of $( impl ... )*, after those in acc
Headers2Step(toks, acc, r) ==
  IF r.st # "ok" THEN r ELSE ParseHeaders2(toks, r.next, Append(acc, r.h))

\* $( impl ... )* at position i: the headers after the first
ParseHeaders2(toks, i, acc) ==
  IF i <= Len(toks) /\ IsTok(toks[i], "kw", "impl")
  THEN Headers2Step(toks, acc, ParseHeader(toks, i))
  ELSE [st |-> "ok", headers |-> acc, next |-> i]

\* the host's item parser on the start of toks: an item fragment passed on by
\* an earlier expansion, or the tokens `fn name ( ... ) { ... }`
ItemLen(toks) ==
  IF toks = <<>> THEN 0
  ELSE IF toks[1].k = "item" THEN 1
  ELSE IF /\ Len(toks) >= 4
          /\ IsTok(toks[1], "kw", "fn")
          /\ toks[2].k = "id"
          /\ toks[3].k = "paren"
          /\ toks[4].k = "brace"
  THEN 4
  ELSE 0

RECURSIVE ParseItems(_, _)
\* one item of n token trees at the start of toks
ItemsStep(toks, acc, n) ==
  IF n = 0 THEN HardError
  ELSE ParseItems(SubSeq(toks, n + 1, Len(toks)),
                  Append(acc, IF n = 1 THEN toks[1] ELSE ItemNt(SubSeq(toks, 1, n))))

\* $($content:item)* on the inside of the braces
ParseItems(toks, acc) ==
  IF toks = <<>> THEN [st |-> "ok", content |-> acc]
  ELSE ItemsStep(toks, acc, ItemLen(toks))

BodyExtraWith(toks, i, c) ==
  IF c.st # "ok" THEN c
  ELSE [st |-> "ok", content |-> c.content, extra |-> SubSeq(toks, i + 1, Len(toks))]

\* { $($content:item)* } $($extra:tt)* at position i
ParseBodyExtra(toks, i) ==
  IF i > Len(toks) \/ toks[i].k # "brace" THEN Fail
  ELSE BodyExtraWith(toks, i, ParseItems(toks[i].ts, <<>>))

\* rule 1: ()
MatchEmpty(toks) == IF toks = <<>> THEN [st |-> "ok"] ELSE Fail

NoTargetsWhere(toks, w) == IF w.st # "ok" THEN w ELSE ParseBodyExtra(toks, w.next)

NoTargetsGen(toks, g) == IF g.st # "ok" THEN g ELSE NoTargetsWhere(toks, ParseWhere(toks, g.next))

\* rule 2: (impl $(<...>)? $(where (...))? { items } extra)
MatchNoTargets(toks) ==
  IF toks = <<>> \/ ~IsTok(toks[1], "kw", "impl") THEN Fail
  ELSE NoTargetsGen(toks, ParseAngle(toks, 2))

\* the macro without its third rule
MatchNoHeadersMissing(toks) == Fail

\* rule 3: ({ items } extra)
MatchNoHeaders(toks) == ParseBodyExtra(toks, 1)

MainBody(f, r, b) ==
  IF b.st # "ok" THEN b
  ELSE [st |-> "ok", first |-> f.h, headers2 |-> r.headers,
        content |-> b.content, extra |-> b.extra]

MainHeaders2(toks, f, r) ==
  IF r.st # "ok" THEN r ELSE MainBody(f, r, ParseBodyExtra(toks, r.next))

MainFirst(toks, f) ==
  IF f.st # "ok" THEN f ELSE MainHeaders2(toks, f, ParseHeaders2(toks, f.next, <<>>))

\* rule 4: (header header* { items } extra)
MatchMain(toks) == MainFirst(toks, ParseHeader(toks, 1))

\* the rule taken, given the result of each rule's matcher: the first rule, in
\* the order of the source, that does not fail
FirstRule(e, n, h, m) ==
  IF e.st # "fail" THEN [rule |-> "empty", b |-> e]
  ELSE IF n.st # "fail"
  THEN [rule |-> IF n.st = "ok" THEN "no_targets" ELSE "error", b |-> n]
  ELSE IF h.st # "fail"
  THEN [rule |-> IF h.st = "ok" THEN "no_headers" ELSE "error", b |-> h]
  ELSE IF m.st # "fail"
  THEN [rule |-> IF m.st = "ok" THEN "main" ELSE "error", b |-> m]
  ELSE [rule |-> "none", b |-> m]

\* the rule an invocation on toks takes, with its bindings
Match(toks) ==
  FirstRule(MatchEmpty(toks), MatchNoTargets(toks), MatchNoHeaders(toks), MatchMain(toks))

MatchRule(toks) == Match(toks).rule

(***************************************************************************)
(* The transcribers of the right-hand sides.                               *)
(***************************************************************************)
\* $(<$($x),*>)?
TrAngle(a) ==
  IF a.present
  THEN <<Pu("<")>> \o Join([i \in 1..Len(a.args) |-> <<a.args[i]>>], <<Pu(",")>>)
       \o <<Pu(">")>>
  ELSE <<>>

\* TrTarget without the $(for ...)? part
TrTargetNoFor(t) == <<t.name>> \o TrAngle(t.params)

\* $name$(<...>)? $(for $ename$(<...>)?)?
TrTarget(t) ==
  <<t.name>> \o TrAngle(t.params)
  \o (IF t.hasFor THEN <<Kw("for"), t.ename>> \o TrAngle(t.eparams) ELSE <<>>)

\* TrWhereBare that keeps the parentheses of the invocation
TrWhereKeepParens(w) == IF w.present THEN <<Kw("where"), Paren(w.args)>> ELSE <<>>

\* $(where $($where_args)*)? of the emitted block: the parentheses are dropped
TrWhereBare(w) == IF w.present THEN <<Kw("where")>> \o w.args ELSE <<>>

\* $(where ($($where_args)*))? of the inner invocations
TrWhereParen(w) == IF w.present THEN <<Kw("where"), Paren(w.args)>> ELSE <<>>

TrTargets(targets) ==
  Join([i \in 1..Len(targets) |-> TrTarget(targets[i])], <<Pu(",")>>)

\* one header of the third part of rule 4, written out again in full
TrHeader(h) ==
  <<Kw("impl")>> \o TrAngle(h.gen) \o TrTargets(h.targets) \o TrWhereParen(h.wh)

\* the impl block of rule 4, for the first target of the first header
EmitBlock(m) ==
  Block(<<Kw("impl")>> \o TrAngle(m.first.gen) \o TrTarget(m.first.targets[1])
        \o TrWhereBare(m.first.wh) \o <<Brace(m.content)>>)

\* MoreInvocation that passes the input after the group on as well
MoreInvocationWithExtra(m) ==
  Inv(<<Kw("impl")>> \o TrAngle(m.first.gen) \o TrTargets(Tail(m.first.targets))
      \o TrWhereParen(m.first.wh) \o <<Brace(m.content)>> \o m.extra)

\* MoreInvocation that passes every target of the header on, the first included
MoreInvocationAllTargets(m) ==
  Inv(<<Kw("impl")>> \o TrAngle(m.first.gen) \o TrTargets(m.first.targets)
      \o TrWhereParen(m.first.wh) \o <<Brace(m.content)>>)

\* the invocation on the remaining targets of the first header
MoreInvocation(m) ==
  Inv(<<Kw("impl")>> \o TrAngle(m.first.gen) \o TrTargets(Tail(m.first.targets))
      \o TrWhereParen(m.first.wh) \o <<Brace(m.content)>>)

\* HeadersInvocation that writes the generics and the where-clause of the first
\* header for every later header
HeadersInvocationFirstGenerics(m) ==
  Inv(Concat([i \in 1..Len(m.headers2) |->
                <<Kw("impl")>> \o TrAngle(m.first.gen) \o TrTargets(m.headers2[i].targets)
                \o TrWhereParen(m.first.wh)])
      \o <<Brace(m.content)>>)

\* the invocation on the remaining headers of the group
HeadersInvocation(m) ==
  Inv(Concat([i \in 1..Len(m.headers2) |-> TrHeader(m.headers2[i])])
      \o <<Brace(m.content)>>)

\* the invocation on the input after the group
ExtraInvocation(m) == Inv(m.extra)

\* Transcribe with the block of rule 4 after the inner invocations
TranscribeBlockLast(r) ==
  IF r.rule = "empty" THEN <<>>
  ELSE IF r.rule \in {"no_targets", "no_headers"} THEN <<ExtraInvocation(r.b)>>
  ELSE <<MoreInvocation(r.b), HeadersInvocation(r.b), EmitBlock(r.b), ExtraInvocation(r.b)>>

\* what an invocation that matched as r is replaced by
Transcribe(r) ==
  IF r.rule = "empty" THEN <<>>
  ELSE IF r.rule \in {"no_targets", "no_headers"} THEN <<ExtraInvocation(r.b)>>
  ELSE <<EmitBlock(r.b), MoreInvocation(r.b), HeadersInvocation(r.b), ExtraInvocation(r.b)>>

(***************************************************************************)
(* The programs the expansion is checked on.  A program is a sequence of   *)
(* groups, a group a sequence of headers and a body, a header an optional  *)
(* generic list, its targets and an optional where-clause.  The tokens of  *)
(* a program are what the programmer writes between the parentheses of     *)
(* impl_twice!( ... ).                                                     *)
(***************************************************************************)
TypeNames == <<"A", "B", "C", "D", "E", "F", "G", "H">>

GenNames == <<"T", "U", "V", "W", "X", "Y", "Z", "S">>

FnNames == <<"f", "g", "h", "i", "j">>

Nth(names, n) == names[((n - 1) % Len(names)) + 1]

\* how a header is written: alone, with generics and a where-clause, with
\* generics only, with an empty where-clause only
HeaderKinds == <<"plain", "both", "gen", "where">>

\* how the traits of a header are written: none, before every target, before
\* the first target only
TraitKinds == <<"none", "each", "first">>

\* a program is written in one of these styles: the style and the position of
\* a header give its kind and the kind of its traits
Styles == 0..3

\* what a program may get wrong, at one target: a path for the type or for the
\* trait, a bound in the generic list of the header, a nested list of generic
\* arguments, a where-clause without parentheses, the generic list `<>`
DefectKinds ==
  {"qualTarget", "qualTrait", "boundGeneric", "nestedArg", "bareWhere", "emptyGenerics"}

NoDefect == [kind |-> "none", at |-> 0]

\* the shape of a group: the number of targets of each of its headers; <<>> is
\* a body after no header, <<0>> a header that names no target
EmptyGroupShapes == {<<>>, <<0>>}

\* the sequences of positive numbers of sum at most w
RECURSIVE HeaderCounts(_)
HeaderCounts(w) ==
  {<<>>} \cup UNION {{<<k>> \o c : c \in HeaderCounts(w - k)} : k \in 1..w}

GroupShapes(w) == EmptyGroupShapes \cup (HeaderCounts(w) \ {<<>>})

GroupSize(g) == IF g \in EmptyGroupShapes THEN 1 ELSE SumSeq(g)

PairsOfShape(shape) == SumSeq([i \in 1..Len(shape) |-> SumSeq(shape[i])])

\* the programs of size at most w
RECURSIVE ShapesUpTo(_)
ShapesUpTo(w) ==
  {<<>>} \cup
  UNION {{<<g>> \o s : s \in ShapesUpTo(w - GroupSize(g))} :
         g \in {x \in GroupShapes(w) : GroupSize(x) <= w}}

Shapes == ShapesUpTo(MaxSize)

\* the programs a defect is put in: every group names a target
FullShapes == {s \in Shapes : \A i \in 1..Len(s) : s[i] \notin EmptyGroupShapes}

HeadersBefore(shape, gi) == SumSeq([j \in 1..(gi - 1) |-> Len(shape[j])])

PairsBefore(shape, gi, hi) ==
  PairsOfShape(SubSeq(shape, 1, gi - 1)) + SumSeq(SubSeq(shape[gi], 1, hi - 1))

\* `fn name() {}` as the programmer writes it
FnItem(name) == <<Kw("fn"), Id(name), Paren(<<>>), Brace(<<>>)>>

\* the body of the gi-th group: one item, and a second one in every other group
BodyOf(gi) ==
  FnItem(Nth(FnNames, gi)) \o (IF gi % 2 = 0 THEN FnItem("aux") ELSE <<>>)

BuildTarget(p, hasGen, gname, withTrait, defect) ==
  LET hit(kind) == defect.kind = kind /\ defect.at = p
      args == IF hit("nestedArg")
              THEN <<Pu("<"), Id("Box"), Pu("<"), Id(gname), Pu(">>")>>
              ELSE IF hasGen THEN <<Pu("<"), Lt("'a"), Pu(","), Id(gname), Pu(">")>>
              ELSE <<>>
      targs == IF hasGen THEN <<Pu("<"), Id(gname), Pu(">")>> ELSE <<>>
  IN [name |-> Nth(TypeNames, p),
      ty |-> (IF hit("qualTarget") THEN <<Id("m"), Pu("::")>> ELSE <<>>)
             \o <<Id(Nth(TypeNames, p))>> \o args,
      trait |-> IF hit("qualTrait") THEN <<Id("m"), Pu("::"), Id("Tr")>> \o targs
                ELSE IF withTrait THEN <<Id("Tr")>> \o targs
                ELSE <<>>]

BuildHeader(n, p0, count, style, defect) ==
  LET kind == Nth(HeaderKinds, style + n)
      traits == Nth(TraitKinds, style + n)
      gname == Nth(GenNames, n)
      mine(k) == defect.kind = k /\ defect.at > p0 /\ defect.at <= p0 + count
      hasGen == kind \in {"both", "gen"}
  IN [gen |-> IF mine("boundGeneric")
              THEN <<Pu("<"), Id(gname), Pu(":"), Id("Clone"), Pu(">")>>
              ELSE IF mine("emptyGenerics") THEN <<Pu("<"), Pu(">")>>
              ELSE IF hasGen THEN <<Pu("<"), Lt("'a"), Pu(","), Id(gname), Pu(">")>>
              ELSE <<>>,
      targets |-> [j \in 1..count |->
                     BuildTarget(p0 + j, hasGen, gname,
                                 traits = "each" \/ (traits = "first" /\ j = 1), defect)],
      wh |-> IF mine("bareWhere")
             THEN [present |-> TRUE, paren |-> FALSE,
                   args |-> <<Id(gname), Pu(":"), Id("Clone")>>]
             ELSE IF kind = "both"
             THEN [present |-> TRUE, paren |-> TRUE,
                   args |-> <<Id(gname), Pu(":"), Id("Clone")>>]
             ELSE IF kind = "where"
             THEN [present |-> TRUE, paren |-> TRUE, args |-> <<>>]
             ELSE [present |-> FALSE, paren |-> TRUE, args |-> <<>>]]

BuildProgram(shape, style, defect) ==
  [groups |-> [gi \in 1..Len(shape) |->
                 [headers |-> [hi \in 1..Len(shape[gi]) |->
                                 BuildHeader(HeadersBefore(shape, gi) + hi,
                                             PairsBefore(shape, gi, hi),
                                             shape[gi][hi], style, defect)],
                  body |-> BodyOf(gi)]],
   pairs |-> Concat([gi \in 1..Len(shape) |->
                       Concat([hi \in 1..Len(shape[gi]) |->
                                 [j \in 1..shape[gi][hi] |-> [g |-> gi, h |-> hi, j |-> j]]])]),
   defect |-> defect]

\* the tokens of a target, a header, a group and a program as written
RenderTarget(t) == IF t.trait = <<>> THEN t.ty ELSE t.trait \o <<Kw("for")>> \o t.ty

RenderWhere(w) ==
  IF ~w.present THEN <<>>
  ELSE IF w.paren THEN <<Kw("where"), Paren(w.args)>>
  ELSE <<Kw("where")>> \o w.args

RenderHeader(h) ==
  <<Kw("impl")>> \o h.gen
  \o Join([j \in 1..Len(h.targets) |-> RenderTarget(h.targets[j])], <<Pu(",")>>)
  \o RenderWhere(h.wh)

RenderGroup(g) ==
  Concat([hi \in 1..Len(g.headers) |-> RenderHeader(g.headers[hi])]) \o <<Brace(g.body)>>

RenderProgram(p) == Concat([gi \in 1..Len(p.groups) |-> RenderGroup(p.groups[gi])])

(***************************************************************************)
(* The expansion.  out is the expanded text so far: impl blocks and the    *)
(* invocations still to expand, in their place.  The host expands the      *)
(* leftmost pending invocation first; an invocation that takes no rule     *)
(* ends the expansion in failure.                                          *)
(***************************************************************************)
Pending == {i \in 1..Len(out) : out[i].k = "inv"}

\* the position of the invocation expanded next
NextInv == CHOOSE i \in Pending : \A j \in Pending : i <= j

Replace(i, elems) == SubSeq(out, 1, i - 1) \o elems \o SubSeq(out, i + 1, Len(out))

Settle(newOut) == IF \E i \in 1..Len(newOut) : newOut[i].k = "inv" THEN "running" ELSE "done"

\* a program as it should be written, in one of the styles
InitSound == \E shape \in Shapes, style \in Styles : prog = BuildProgram(shape, style, NoDefect)

\* a program with one defect
InitDefect ==
  \E shape \in FullShapes, kind \in DefectKinds :
    \E p \in 1..PairsOfShape(shape) :
      prog = BuildProgram(shape, 0, [kind |-> kind, at |-> p])

Init ==
  /\ (InitSound \/ InitDefect)
  /\ out = <<Inv(RenderProgram(prog))>>
  /\ status = "running"

\* the invocation at position i, which matched as r, is replaced by its expansion
RewriteAt(i, r, rule) ==
  /\ r.rule = rule
  /\ out' = Replace(i, Transcribe(r))
  /\ status' = Settle(out')
  /\ UNCHANGED prog

RewriteNext(i, rule) == RewriteAt(i, Match(out[i].ts), rule)

\* rule 1
ExpandEmpty ==
  /\ status = "running"
  /\ Pending # {}
  /\ RewriteNext(NextInv, "empty")

\* rule 2
ExpandNoTargets ==
  /\ status = "running"
  /\ Pending # {}
  /\ RewriteNext(NextInv, "no_targets")

\* rule 3
ExpandNoHeaders ==
  /\ status = "running"
  /\ Pending # {}
  /\ RewriteNext(NextInv, "no_headers")

\* rule 4
ExpandMain ==
  /\ status = "running"
  /\ Pending # {}
  /\ RewriteNext(NextInv, "main")

\* no rule matches, or the matcher reports an error
ExpandFail ==
  /\ status = "running"
  /\ Pending # {}
  /\ MatchRule(out[NextInv].ts) \in {"none", "error"}
  /\ status' = "failed"
  /\ UNCHANGED <<prog, out>>

Next == ExpandEmpty \/ ExpandNoTargets \/ ExpandNoHeaders \/ ExpandMain \/ ExpandFail

Spec == Init /\ [][Next]_vars

TypeOK ==
  /\ status \in {"running", "done", "failed"}
  /\ \A i \in 1..Len(out) : out[i].k \in {"block", "inv"}

(***************************************************************************)
(* Reading the program and the emitted blocks, for the properties.         *)
(***************************************************************************)
Sound == prog.defect.kind = "none"

\* the (header, target) pairs of the program, in the order they are written
PairList == prog.pairs

NumPairs == Len(PairList)

HeaderOf(p) == prog.groups[p.g].headers[p.h]

TargetOf(p) == HeaderOf(p).targets[p.j]

\* the pairs of the groups before group gi
PairsBeforeGroup(gi) == Cardinality({q \in 1..NumPairs : PairList[q].g < gi})

IsBlock(e) == e.k = "block"

Blocks == SelectSeq(out, IsBlock)

\* the tokens of an emitted body as the programmer wrote them
RECURSIVE Flatten(_)
Flatten(toks) ==
  IF toks = <<>> THEN <<>>
  ELSE (IF Head(toks).k = "item" THEN Flatten(Head(toks).ts) ELSE <<Head(toks)>>)
       \o Flatten(Tail(toks))

\* the least position of toks, from position from on, that holds the token, or 0
FirstAt(toks, from, kind, text) ==
  LET hits == {i \in from..Len(toks) : IsTok(toks[i], kind, text)}
  IN IF hits = {} THEN 0 ELSE CHOOSE i \in hits : \A j \in hits : i <= j

\* the parts of a block `impl <generics> head where-clause { body }`
BlockGenEnd(b) ==
  IF Len(b.ts) >= 2 /\ IsTok(b.ts[2], "punct", "<") THEN FirstAt(b.ts, 3, "punct", ">") ELSE 1

BlockWhereAt(b) == FirstAt(b.ts, 1, "kw", "where")

BlockGen(b) == SubSeq(b.ts, 2, BlockGenEnd(b))

BlockHead(b) ==
  SubSeq(b.ts, BlockGenEnd(b) + 1,
         (IF BlockWhereAt(b) = 0 THEN Len(b.ts) ELSE BlockWhereAt(b)) - 1)

BlockWhere(b) ==
  IF BlockWhereAt(b) = 0 THEN <<>> ELSE SubSeq(b.ts, BlockWhereAt(b), Len(b.ts) - 1)

BlockBody(b) == Flatten(b.ts[Len(b.ts)].ts)

\* the position in the head of the type the block is for: after `for`, or first
BlockTypeAt(b) == FirstAt(BlockHead(b), 1, "kw", "for") + 1

BlockTargetName(b) ==
  IF BlockTypeAt(b) <= Len(BlockHead(b)) THEN BlockHead(b)[BlockTypeAt(b)].v ELSE ""

\* the pairs whose target type has the name of block b
PairsOf(b) ==
  LET name == BlockTargetName(b)
  IN {q \in 1..NumPairs : TargetOf(PairList[q]).name = name}

\* the where-clause of a header as it is written in a plain impl block
PlainWhere(h) == IF h.wh.present THEN <<Kw("where")>> \o h.wh.args ELSE <<>>

\* the tokens of an invocation before its first body
LeadTokens(toks) ==
  LET braces == {i \in 1..Len(toks) : toks[i].k = "brace"}
  IN IF braces = {} THEN toks
     ELSE SubSeq(toks, 1, (CHOOSE i \in braces : \A j \in braces : i <= j) - 1)

\* the tokens of an invocation after its first body
AfterFirstBody(toks) ==
  LET braces == {i \in 1..Len(toks) : toks[i].k = "brace"}
  IN SubSeq(toks, (CHOOSE i \in braces : \A j \in braces : i <= j) + 1, Len(toks))

HasPunct(toks, text) == \E i \in 1..Len(toks) : IsTok(toks[i], "punct", text)

(***************************************************************************)
(* The properties.                                                         *)
(***************************************************************************)

\* C1: a program that matches the grammar never fails; while it expands every
\* block is for a target of the program and no target has more than one block,
\* and when the expansion is complete every (header, target) pair has exactly
\* one block and there is no other block:
\* k blocks for a header of k targets, one expansion of every later group,
\* no block for the empty program.
OneBlockPerPair ==
  LET names == [i \in 1..Len(Blocks) |-> BlockTargetName(Blocks[i])]
  IN Sound =>
       /\ status # "failed"
       /\ \A i \in 1..Len(names) :
            /\ \E q \in 1..NumPairs : TargetOf(PairList[q]).name = names[i]
            /\ \A j \in 1..Len(names) : i # j => names[i] # names[j]
       /\ status = "done" =>
            /\ Len(names) = NumPairs
            /\ \A q \in 1..NumPairs :
                 \E i \in 1..Len(names) : names[i] = TargetOf(PairList[q]).name

\* a complete expansion of two groups, the first with a header of several targets
OneBlockPerPairWitness ==
  LET bs == Blocks IN
  /\ Sound
  /\ status = "done"
  /\ Len(prog.groups) >= 2
  /\ Len(prog.groups[1].headers) >= 1
  /\ Len(prog.groups[1].headers[1].targets) >= 2
  /\ Len(prog.groups[2].headers) >= 1
  /\ Len(prog.groups[2].headers[1].targets) >= 1
  /\ Len(bs) = NumPairs

\* C2: every block carries the generics and the where-clause of the header
\* that names its target and the body of that header's group, unchanged.
OwnHeaderAndBody ==
  LET bs == Blocks IN
  Sound =>
    \A i \in 1..Len(bs) :
      \E q \in PairsOf(bs[i]) :
        /\ BlockGen(bs[i]) = HeaderOf(PairList[q]).gen
        /\ BlockWhere(bs[i]) = PlainWhere(HeaderOf(PairList[q]))
        /\ BlockBody(bs[i]) = prog.groups[PairList[q].g].body

\* blocks of two headers of one group that differ in generics and where-clause,
\* and of two targets of one header
OwnHeaderAndBodyWitness ==
  LET bs == Blocks IN
  /\ Sound
  /\ status = "done"
  /\ \E q1, q2 \in 1..NumPairs :
       /\ PairList[q1].g = PairList[q2].g
       /\ PairList[q1].h # PairList[q2].h
       /\ HeaderOf(PairList[q1]).gen # HeaderOf(PairList[q2]).gen
       /\ HeaderOf(PairList[q1]).wh # HeaderOf(PairList[q2]).wh
       /\ PairList[q1].j >= 2
       /\ \E i1, i2 \in 1..Len(bs) : q1 \in PairsOf(bs[i1]) /\ q2 \in PairsOf(bs[i2])

\* C3: the blocks are in the order of the input: of two blocks, the earlier
\* one is for the pair written earlier (earlier group, else earlier header of
\* the group, else earlier target of the header).
InputOrder ==
  LET pairs == [i \in 1..Len(Blocks) |-> PairsOf(Blocks[i])]
  IN Sound =>
       \A i1, i2 \in 1..Len(pairs) :
         i1 < i2 => \E q1 \in pairs[i1], q2 \in pairs[i2] : q1 < q2

\* blocks of two groups, of two headers of a group and of two targets of a header
InputOrderWitness ==
  LET bs == Blocks IN
  /\ Sound
  /\ status = "done"
  /\ Len(bs) >= 4
  /\ \E q \in 1..NumPairs : PairList[q].g >= 2
  /\ \E q \in 1..NumPairs : PairList[q].g = 1 /\ PairList[q].h >= 2
  /\ \E q \in 1..NumPairs : PairList[q].g = 1 /\ PairList[q].j >= 2

\* C4 as claimed: the trait written before the first target of a header is in
\* the block of every target of the header.
TraitPropagated ==
  LET bs == Blocks IN
  Sound =>
    \A i \in 1..Len(bs) :
      \E q \in PairsOf(bs[i]) :
        BlockHead(bs[i]) =
          (IF HeaderOf(PairList[q]).targets[1].trait # <<>>
           THEN HeaderOf(PairList[q]).targets[1].trait \o <<Kw("for")>>
           ELSE <<>>) \o TargetOf(PairList[q]).ty

\* C4: a block has `Trait for` before its type exactly when its own target is
\* written with it: of `impl Tr for T1, T2` the block of T1 implements Tr and
\* the block of T2 is a plain impl of T2; of a header with no trait no block
\* has a trait.
TraitAsWritten ==
  LET bs == Blocks IN
  Sound =>
    \A i \in 1..Len(bs) :
      \E q \in PairsOf(bs[i]) :
        BlockHead(bs[i]) = RenderTarget(TargetOf(PairList[q]))

\* the block of a later target of a header whose first target alone has a trait
TraitAsWrittenWitness ==
  LET bs == Blocks IN
  /\ Sound
  /\ \E i \in 1..Len(bs) :
       \E q \in PairsOf(bs[i]) :
         /\ PairList[q].j >= 2
         /\ HeaderOf(PairList[q]).targets[1].trait # <<>>
         /\ TargetOf(PairList[q]).trait = <<>>
         /\ FirstAt(BlockHead(bs[i]), 1, "kw", "for") = 0
  /\ \E i \in 1..Len(bs) : FirstAt(BlockHead(bs[i]), 1, "kw", "for") > 0

\* C5: the block of every target of a header with `where ( tokens )` has
\* `where` followed by exactly the tokens, without the parentheses, up to the
\* body; the blocks of a header without a where-clause have no `where`.
WhereUnwrapped ==
  LET bs == Blocks IN
  Sound =>
    \A i \in 1..Len(bs) :
      \E q \in PairsOf(bs[i]) :
        IF HeaderOf(PairList[q]).wh.present
        THEN /\ BlockWhereAt(bs[i]) > 0
             /\ SubSeq(bs[i].ts, BlockWhereAt(bs[i]) + 1, Len(bs[i].ts) - 1)
                  = HeaderOf(PairList[q]).wh.args
             /\ \A j \in 1..(Len(bs[i].ts) - 1) : bs[i].ts[j].k # "paren"
        ELSE BlockWhereAt(bs[i]) = 0

\* the block of a later target of a header with a where-clause that has tokens,
\* and a block of a header without one
WhereUnwrappedWitness ==
  LET bs == Blocks IN
  /\ Sound
  /\ \E i \in 1..Len(bs) :
       \E q \in PairsOf(bs[i]) :
         /\ PairList[q].j >= 2
         /\ HeaderOf(PairList[q]).wh.present
         /\ HeaderOf(PairList[q]).wh.args # <<>>
         /\ BlockWhereAt(bs[i]) > 0
  /\ \E i \in 1..Len(bs) : BlockWhereAt(bs[i]) = 0

\* the target with the defect, its name and its group
DefectPair == PairList[prog.defect.at]

DefectName == TargetOf(DefectPair).name

DefectGroup == DefectPair.g

Qualified == prog.defect.kind \in {"qualTarget", "qualTrait"}

\* C6 as claimed: a program with a path-qualified type or trait matches none of
\* the rules, its expansion fails, and no block is emitted for a segment of the
\* path.
QualifiedMatchesNoRule ==
  LET bs == Blocks IN
  Qualified =>
    /\ MatchRule(RenderProgram(prog)) = "none"
    /\ status # "done"
    /\ \A i \in 1..Len(bs) : BlockTargetName(bs[i]) \notin {"m", DefectName}

\* C6: the expansion of a program with a path-qualified type or trait fails:
\* the invocation that holds the path in its first group (before its first
\* body) matches none of the rules, and an invocation that holds it only after
\* its first body matches and is expanded; the expansion is never complete and
\* no block is emitted for a segment of the path or for the target.
QualifiedRejected ==
  LET bs == Blocks IN
  Qualified =>
    /\ status # "done"
    /\ \A i \in Pending :
         IF HasPunct(LeadTokens(out[i].ts), "::")
         THEN MatchRule(out[i].ts) = "none"
         ELSE MatchRule(out[i].ts) \in {"empty", "no_targets", "no_headers", "main"}
    /\ \A i \in 1..Len(bs) :
         /\ BlockTargetName(bs[i]) \notin {"m", DefectName}
         /\ ~HasPunct(bs[i].ts, "::")

\* the failure on a path in the second group, after the first group was expanded
QualifiedRejectedWitness ==
  LET bs == Blocks IN
  /\ Qualified
  /\ status = "failed"
  /\ DefectGroup >= 2
  /\ Len(bs) >= 1
  /\ MatchRule(RenderProgram(prog)) = "main"

\* C7 as claimed: when the expansion fails no block has been emitted.
NoPartialOutput ==
  LET bs == Blocks IN status = "failed" => bs = <<>>

\* C7: a program with a malformed group fails, and no block of the malformed
\* group or of a later group is ever emitted: a defect in the first group
\* leaves no block at all.  The blocks of the groups before the malformed one
\* are emitted, all of them by the time the failure is found.
FailsAfterEarlierGroups ==
  LET bs == Blocks IN
  ~Sound =>
    /\ status # "done"
    /\ \A i \in 1..Len(bs) :
         \E q \in PairsOf(bs[i]) : PairList[q].g < DefectGroup
    /\ status = "failed" => Len(bs) = PairsBeforeGroup(DefectGroup)

\* a failure in a later group with the blocks of the first group emitted
FailsAfterEarlierGroupsWitness ==
  LET bs == Blocks IN
  /\ prog.defect.kind = "bareWhere"
  /\ status = "failed"
  /\ DefectGroup >= 2
  /\ Len(bs) >= 2
  /\ Len(bs) = PairsBeforeGroup(DefectGroup)

NotOneToken == prog.defect.kind \in {"boundGeneric", "nestedArg"}

\* C8 as claimed: a header with a bound in its generic list, or a nested
\* angle-bracket group in a target's list, is accepted.
GenericsOpaque == NotOneToken => status # "failed"

\* C8: a header whose generic list has a bound, or whose target's list has a
\* nested angle-bracket group, is rejected: the invocation that holds it in its
\* first group matches none of the rules, the expansion is never complete and
\* no block of the header's group is emitted.
GenericsOneTokenEach ==
  LET bs == Blocks IN
  NotOneToken =>
    /\ status # "done"
    /\ \A i \in Pending :
         (HasPunct(LeadTokens(out[i].ts), ":") \/ HasPunct(LeadTokens(out[i].ts), ">>"))
           => MatchRule(out[i].ts) = "none"
    /\ \A i \in 1..Len(bs) :
         /\ \A q \in PairsOf(bs[i]) : PairList[q].g # DefectGroup
         /\ ~HasPunct(BlockGen(bs[i]), ":")
         /\ ~HasPunct(BlockHead(bs[i]), ">>")

\* the failure on a bound in the generic list of the first header
GenericsOneTokenEachWitness ==
  LET bs == Blocks IN
  /\ prog.defect.kind = "boundGeneric"
  /\ status = "failed"
  /\ DefectGroup = 1
  /\ bs = <<>>
  /\ HasPunct(HeaderOf(DefectPair).gen, ":")

\* the headers of a group that names no target: nothing, or `impl` with an
\* optional generic list and an optional where-clause
NoTargetLead(lead) ==
  \/ lead = <<>>
  \/ /\ IsTok(lead[1], "kw", "impl")
     /\ LET n == Len(lead)
            m == IF n >= 3 /\ IsTok(lead[n - 1], "kw", "where") /\ lead[n].k = "paren"
                 THEN n - 2 ELSE n
        IN \/ m = 1
           \/ /\ m >= 4
              /\ m % 2 = 0
              /\ IsTok(lead[2], "punct", "<")
              /\ IsTok(lead[m], "punct", ">")
              /\ \A j \in 3..(m - 1) : (j % 2 = 0) <=> IsTok(lead[j], "punct", ",")

\* the invocation expanded next starts with a body after no target
EmptyGroupNext ==
  /\ status = "running"
  /\ Pending # {}
  /\ \E i \in 1..Len(out[NextInv].ts) : out[NextInv].ts[i].k = "brace"
  /\ NoTargetLead(LeadTokens(out[NextInv].ts))

\* C9: the expansion of an invocation that starts with a body after no header,
\* or after a header that names no target, is not an error and emits nothing:
\* the invocation is replaced by the invocation on the input after the body,
\* and everything else emitted so far stays as it is.
EmptyGroupDiscarded ==
  [][EmptyGroupNext =>
       /\ status' # "failed"
       /\ out' = Replace(NextInv, <<Inv(AfterFirstBody(out[NextInv].ts))>>)]_vars

\* a complete expansion of a program with a body after no header and a header
\* without a target, each followed by a group that has blocks
EmptyGroupDiscardedWitness ==
  LET bs == Blocks IN
  /\ Sound
  /\ status = "done"
  /\ \E g1, g2 \in 1..Len(prog.groups) :
       /\ prog.groups[g1].headers = <<>>
       /\ Len(prog.groups[g2].headers) = 1
       /\ prog.groups[g2].headers[1].targets = <<>>
       /\ prog.groups[g2].headers[1].wh.present
       /\ \E q \in 1..NumPairs : PairList[q].g > g1 /\ PairList[q].g > g2
  /\ Len(bs) = NumPairs
  /\ NumPairs >= 1

\* C10: the expansion of a program that matches the grammar terminates: every
\* pending invocation matches a rule, each invocation it is replaced by holds
\* strictly fewer tokens than it does, only the empty rule leaves no
\* invocation, an invocation is pending (and a rule can be applied to it) as
\* long as the expansion runs, and the expansion is done exactly when none is.
Terminating ==
  Sound =>
    /\ status # "failed"
    /\ (status = "done") <=> (Pending = {})
    /\ status = "running" => Pending # {}
    /\ \A i \in Pending :
         LET r == Match(out[i].ts)
             next == IF r.rule \in {"none", "error"} THEN <<>> ELSE Transcribe(r)
         IN /\ r.rule \in {"empty", "no_targets", "no_headers", "main"}
            /\ \A k \in 1..Len(next) :
                 next[k].k = "inv" => Size(next[k].ts) < Size(out[i].ts)
            /\ (\A k \in 1..Len(next) : next[k].k # "inv") => out[i].ts = <<>>

\* a complete expansion of several headers and targets with nothing pending
TerminatingWitness ==
  LET bs == Blocks IN
  /\ Sound
  /\ status = "done"
  /\ Pending = {}
  /\ Len(bs) >= 3
  /\ \E q \in 1..NumPairs : PairList[q].h >= 2
  /\ \E q \in 1..NumPairs : PairList[q].j >= 2

====
